---- MODULE Spec2Model ----
(***************************************************************************)
(* The attempt-execution pipeline of the Terminal-Bench platform backend:  *)
(* create_run (main.py) creates one Run and its Attempts and dispatches    *)
(* one job per attempt, either to the Celery queue (execute_harbor_task,   *)
(* celery_worker.py) or to a background thread (execute_attempt_locally,   *)
(* main.py); each job runs execute_harbor (harbor_runner.py), writes the   *)
(* attempt's result and recomputes the Run's status.                       *)
(*                                                                         *)
(* The database is modelled by its committed rows: a session's flushed but *)
(* uncommitted rows (create_run's Attempts before line 425) are kept in    *)
(* the session and are invisible to every other session.  One Run is       *)
(* modelled (runs do not share rows); its id is RunId and, the tables      *)
(* starting empty, the id of its i-th Attempt is i.                        *)
(*                                                                         *)
(* A nullable column holds NULL (the empty tuple) or Some(v) (<<v>>).      *)
(* Rewards are the numbers of reward.txt; 0 stands for 0.0.                *)
(*                                                                         *)
(* Faults: the commit that writes an attempt's result (celery_worker.py    *)
(* 208/230, main.py 107/116) and the commit of the fault handler           *)
(* (celery_worker.py 251, main.py 128) may fail; a failed commit rolls     *)
(* the session back and writes nothing.                                    *)
(*                                                                         *)
(* Specifications.  Spec is the pipeline alone.  DeleteSpec adds the two   *)
(* administrative deletions (delete_all_tasks of main.py, clear_all_tasks  *)
(* of clear_tasks.py).  LossSpec adds the loss of the worker process that  *)
(* executes a Celery task (celery_app.py: task_acks_late,                  *)
(* task_reject_on_worker_lost).  HarborSpec runs execute_harbor's output   *)
(* handling (find_trial_directory and the three parsers) on a concrete     *)
(* output directory and writes the result to the attempt.                  *)
(*                                                                         *)
(* One Task is modelled, uploaded before the first state; its id is        *)
(* TaskId.  The database either enforces foreign keys (PostgreSQL) or      *)
(* does not (SQLite, the default DATABASE_URL, opened without              *)
(* PRAGMA foreign_keys): FOREIGN_KEYS.                                     *)
(***************************************************************************)
EXTENDS Integers, Naturals, Sequences, FiniteSets, TLC

\* Largest n_attempts a request asks for.
MaxAttempts == 2

\* @app.task(max_retries=2): the retries Celery grants a faulting job.
max_retries == 2

NULL == << >>
Some(v) == << v >>

TaskId == 1
RunId == 1
AttemptIds == 1..MaxAttempts

VARIABLES
    USE_CELERY,     \* main.py 37: the dispatch path, fixed at process start
    runs,           \* table runs: id -> row (committed)
    attempts,       \* table attempts: id -> row (committed)
    episodes,       \* table episodes: attempt id -> the rows of that attempt
    test_results,   \* table test_results: attempt id -> the rows of that attempt
    cr_pc,          \* create_run: where the request handler stands
    n_attempts,     \* create_run: run_data.n_attempts
    cr_i,           \* create_run: the loop variable i
    cr_session,     \* create_run: the Attempts flushed and not yet committed
    job_pc,         \* per attempt: where its job (Celery task or thread) stands
    job_retries,    \* per attempt: self.request.retries of its Celery task
    job_result,     \* per attempt: the job's local variable result
    tasks,          \* table tasks: the ids of its rows (committed)
    FOREIGN_KEYS,   \* database.py 10: whether the database enforces foreign keys
    delete_response,\* delete_all_tasks: the response of the last request
    clear_response, \* clear_all_tasks: how the last run of the script ended
    redelivered,    \* per attempt: how often its Celery message was delivered again
    fs,             \* HarborSpec: the output directory the runner left
    eh_pc,          \* HarborSpec: where execute_harbor stands
    eh,             \* HarborSpec: execute_harbor's local variables
    USE_CLOUD_STORAGE, \* storage.py 12: whether remote storage is enabled
    UPLOAD_DIR,     \* main.py 155-162: where uploads are extracted, as path parts
    uploads,        \* upload_task: the requests answered, with their responses
    task_file_path, \* table tasks, column file_path: task id -> path parts
    stage,          \* StageSpec: execute_harbor's locals of lines 31-58
    temp_dirs,      \* StageSpec: the temporary directories that exist
    calls,          \* StageSpec: the calls execute_harbor made to storage and runner
    log             \* StageSpec: per credential, the lines execute_harbor logged

vars == << USE_CELERY, runs, attempts, episodes, test_results, cr_pc, n_attempts,
           cr_i, cr_session, job_pc, job_retries, job_result, tasks,
           FOREIGN_KEYS, delete_response, clear_response, redelivered,
           fs, eh_pc, eh, USE_CLOUD_STORAGE, UPLOAD_DIR, uploads,
           task_file_path, stage, temp_dirs, calls, log >>

db == << runs, attempts, episodes, test_results >>
cr == << cr_pc, n_attempts, cr_i, cr_session >>
admin == << tasks, FOREIGN_KEYS, delete_response, clear_response >>
harbor == << fs, eh_pc, eh >>
staging == << USE_CLOUD_STORAGE, UPLOAD_DIR, uploads, task_file_path, stage,
              temp_dirs, calls, log >>

-----------------------------------------------------------------------------
(* harbor_runner.py: execute_harbor and the results it returns *)

DownloadFailedMsg == "Failed to download task from S3"
BinaryMissingMsg  == "Harbor executable not found"
NonZeroExitMsg    == "Harbor execution failed (exit)"
TrialNotFoundMsg  == "Could not find trial directory in output"
TimeoutMsg        == "Harbor execution timed out after 30 minutes"
UnexpectedMsg     == "Unexpected error"
WorkerErrorMsg    == "Worker error"

NoResult == [success |-> FALSE, error |-> NULL, output_path |-> NULL,
             reward |-> NULL, episodes |-> << >>, test_results |-> << >>]

\* A failure dictionary without its 'error' text.
FailureResultNoError(msg) ==
    [success |-> FALSE, error |-> NULL, output_path |-> NULL,
     reward |-> Some(0), episodes |-> << >>, test_results |-> << >>]

\* The failure dictionary every early return and except clause builds.
FailureResult(msg) ==
    [success |-> FALSE, error |-> Some(msg), output_path |-> NULL,
     reward |-> Some(0), episodes |-> << >>, test_results |-> << >>]

SuccessResult(trial) ==
    [success |-> TRUE, error |-> NULL, output_path |-> Some("trial_dir"),
     reward |-> Some(trial.reward), episodes |-> trial.episodes,
     test_results |-> trial.test_results]

\* except subprocess.TimeoutExpired (lines 209-217)
TimeoutResultAsUnexpected == FailureResult(UnexpectedMsg)

TimeoutResult == FailureResult(TimeoutMsg)

\* What the parsers read from a trial directory: the reward, the episode
\* numbers and the statuses of the tests.
TrialOutputs ==
    { [reward |-> 1, episodes |-> << 1, 2 >>,
       test_results |-> << [status |-> "passed", error_message |-> NULL] >>],
      [reward |-> 0, episodes |-> << >>,
       test_results |-> << [status |-> "failed",
                            error_message |-> Some("expected 0, got 1")] >>] }

\* What one execution meets: whether the task is staged from remote storage
\* and the download succeeds, whether the runner binary exists, how the
\* subprocess ends, whether a trial directory is found, and what it holds.
Environments ==
    [is_s3_path : BOOLEAN, download_ok : BOOLEAN, harbor_bin_exists : BOOLEAN,
     proc : {"exit0", "nonzero", "timeout", "raise"}, trial_found : BOOLEAN,
     trial : TrialOutputs]

execute_harbor(env) ==
    IF env.is_s3_path /\ ~env.download_ok THEN FailureResult(DownloadFailedMsg)
    ELSE IF ~env.harbor_bin_exists THEN FailureResult(BinaryMissingMsg)
    ELSE IF env.proc = "timeout" THEN TimeoutResult
    ELSE IF env.proc = "raise" THEN FailureResult(UnexpectedMsg)
    ELSE IF env.proc = "nonzero" THEN FailureResult(NonZeroExitMsg)
    ELSE IF ~env.trial_found THEN FailureResult(TrialNotFoundMsg)
    ELSE SuccessResult(env.trial)

\* The results execute_harbor returns over all environments.
Results == { execute_harbor(env) : env \in Environments }

-----------------------------------------------------------------------------
(* harbor_runner.py: the output directory, find_trial_directory and the    *)
(* parsers.  A file name is a sequence of characters.                      *)

\* Most date directories under the output directory, most entries under a
\* date directory, most entries under agent/, most tests in ctrf.json.
MaxDateDirs == 1
MaxTrialDirs == 2
MaxEntries == 2
MaxTests == 1

\* The characters of the modelled names, in code-point order.
Alphabet == << "-", "0", "1", "2", "a", "b", "c", "d", "e", "g", "i", "l",
               "o", "p", "s" >>

Ord(c) == CHOOSE k \in 1..Len(Alphabet) : Alphabet[k] = c

\* The decimal digits among them, with their values.
DigitValue == ("0" :> 0) @@ ("1" :> 1) @@ ("2" :> 2)

\* 'episode-'
EpisodePrefix == << "e", "p", "i", "s", "o", "d", "e", "-" >>

\* Names of entries under agent/: episode-1, episode-10, episode-abc,
\* episode- and logs.
EntryNames ==
    { EpisodePrefix \o << "1" >>, EpisodePrefix \o << "1", "0" >>,
      EpisodePrefix \o << "a", "b", "c" >>, EpisodePrefix,
      << "l", "o", "g", "s" >> }

\* An entry of agent/: a file, or a directory whose response.txt is absent,
\* holds a JSON object, or holds text that is not JSON.
Entries ==
    [name : EntryNames, is_dir : {FALSE}, response : {"absent"}]
    \cup [name : EntryNames, is_dir : {TRUE},
          response : {"absent", "object", "invalid"}]

\* The listings of agent/: names are unique within a directory.
RECURSIVE ListingsUpTo(_)
ListingsUpTo(k) ==
    IF k = 0 THEN { { } }
    ELSE LET smaller == ListingsUpTo(k - 1)
         IN smaller \cup
            UNION { { S \cup {e} :
                        e \in { x \in Entries : \A y \in S : y.name # x.name } } :
                    S \in smaller }

AgentListings == ListingsUpTo(MaxEntries)

\* An entry of results.tests in ctrf.json: its 'status' and 'message' keys,
\* each missing (NULL) or holding a string.
CtrfStatuses == {"passed", "failed", "skipped", "pending"}

CtrfTests ==
    [status : {NULL} \cup { Some(st) : st \in CtrfStatuses },
     message : {NULL, Some("expected 0, got 1")}]

\* The entries a passing and a failing test usually are.
PlainCtrfTests ==
    { [status |-> Some("passed"), message |-> NULL],
      [status |-> Some("failed"), message |-> Some("expected 0, got 1")] }

\* verifier/ctrf.json: absent, not JSON, or a report with its tests drawn
\* from T.
CtrfFilesOver(T) ==
    [kind : {"absent", "invalid"}, tests : {<< >>}]
    \cup [kind : {"object"},
          tests : UNION { [1..m -> T] : m \in 0..MaxTests }]

CtrfFiles == CtrfFilesOver(CtrfTests)

\* verifier/reward.txt: absent, unreadable, or its text ('1', 'abc').
RewardFiles ==
    [kind : {"absent", "unreadable"}, text : {<< >>}]
    \cup [kind : {"text"}, text : {<< "1" >>, << "a", "b", "c" >>}]

\* What a trial directory holds besides agent/ itself: every listing of
\* agent/ with the usual test entries, and every ctrf.json with agent/ empty.
TrialContents ==
    [entries : AgentListings, ctrf : CtrfFilesOver(PlainCtrfTests),
     reward : RewardFiles]
    \cup [entries : {{ }}, ctrf : CtrfFiles, reward : RewardFiles]

\* An entry of a date directory: a file, or a directory in which agent is
\* missing, a file, or a directory.
TrialEntries ==
    [is_dir : {FALSE}, agent : {"absent"}]
    \cup [is_dir : {TRUE}, agent : {"absent", "file", "dir"}]

\* An entry of the output directory: a file, or a directory with its entries
\* in the order iterdir() yields them.
DateEntries ==
    [is_dir : {FALSE}, trials : {<< >>}]
    \cup [is_dir : {TRUE},
          trials : UNION { [1..m -> TrialEntries] : m \in 0..MaxTrialDirs }]

\* The output directory: missing, or its entries in iterdir() order.
OutputDirs ==
    [exists : {FALSE}, dates : {<< >>}]
    \cup [exists : {TRUE},
          dates : UNION { [1..m -> DateEntries] : m \in 0..MaxDateDirs }]

\* The trial directories find_trial_directory accepts, as <<i, j>>: entry j
\* of entry i, both directories, with agent present.
TrialDirsWithAgent(out) ==
    { p \in (1..Len(out.dates)) \X (1..MaxTrialDirs) :
        /\ out.dates[p[1]].is_dir
        /\ p[2] <= Len(out.dates[p[1]].trials)
        /\ out.dates[p[1]].trials[p[2]].is_dir
        /\ out.dates[p[1]].trials[p[2]].agent # "absent" }

\* The same loops returning the first trial directory, agent or not.
find_trial_directoryAnyDir(out) ==
    LET hits == { p \in (1..Len(out.dates)) \X (1..MaxTrialDirs) :
                    /\ out.dates[p[1]].is_dir
                    /\ p[2] <= Len(out.dates[p[1]].trials)
                    /\ out.dates[p[1]].trials[p[2]].is_dir }
    IN IF ~out.exists \/ hits = { } THEN NULL
       ELSE Some(CHOOSE p \in hits : \A q \in hits :
                    p[1] < q[1] \/ (p[1] = q[1] /\ p[2] <= q[2]))

\* find_trial_directory: the first trial directory, in iteration order, in
\* which agent exists; None (NULL) when there is none.
find_trial_directory(out) ==
    LET hits == TrialDirsWithAgent(out)
    IN IF ~out.exists \/ hits = { } THEN NULL
       ELSE Some(CHOOSE p \in hits : \A q \in hits :
                    p[1] < q[1] \/ (p[1] = q[1] /\ p[2] <= q[2]))

\* str.startswith
startswith(s, prefix) ==
    Len(s) >= Len(prefix) /\ SubSeq(s, 1, Len(prefix)) = prefix

\* str.split(sep): the pieces of s between the occurrences of sep.
RECURSIVE split(_, _)
split(s, sep) ==
    IF \A k \in 1..Len(s) : s[k] # sep THEN << s >>
    ELSE LET k == CHOOSE i \in 1..Len(s) :
                    s[i] = sep /\ \A j \in 1..(i - 1) : s[j] # sep
         IN << SubSeq(s, 1, k - 1) >> \o split(SubSeq(s, k + 1, Len(s)), sep)

\* Whether int(s) or float(s) returns: s is a non-empty run of digits (the
\* modelled names hold no sign, blank or underscore).
IsNumeric(s) == Len(s) > 0 /\ \A k \in 1..Len(s) : s[k] \in DOMAIN DigitValue

\* int(s) for such an s.
RECURSIVE int(_)
int(s) ==
    IF Len(s) = 0 THEN 0
    ELSE 10 * int(SubSeq(s, 1, Len(s) - 1)) + DigitValue[s[Len(s)]]

\* Order of two names as Python compares strings.
RECURSIVE StrLess(_, _)
StrLess(s, t) ==
    IF Len(t) = 0 THEN FALSE
    ELSE IF Len(s) = 0 THEN TRUE
    ELSE IF s[1] = t[1] THEN StrLess(Tail(s), Tail(t))
    ELSE Ord(s[1]) < Ord(t[1])

\* sorted(...) of directory entries, by name.
RECURSIVE sorted(_)
sorted(S) ==
    IF S = { } THEN << >>
    ELSE LET m == CHOOSE x \in S : \A y \in S \ {x} : StrLess(x.name, y.name)
         IN << m >> \o sorted(S \ {m})

\* episode_dirs: the directories under agent/ whose name starts with
\* 'episode-', sorted.
episode_dirs(trial) ==
    sorted({ d \in trial.entries : d.is_dir /\ startswith(d.name, EpisodePrefix) })

\* The loop body's episode number: int(episode_dir.name.split('-')[1]).
episode_num(d) == int(split(d.name, "-")[2])

\* The episodes appended for a list of episode directories: one per
\* directory whose response.txt exists and holds a JSON object.
RECURSIVE LoadEpisodes(_)
LoadEpisodes(dirs) ==
    IF dirs = << >> THEN << >>
    ELSE (IF Head(dirs).response = "object"
          THEN << episode_num(Head(dirs)) >> ELSE << >>)
         \o LoadEpisodes(Tail(dirs))

\* The loop aborting on a response.txt that is not JSON.
parse_episodesNoSkip(trial) ==
    IF trial.agent = "absent" THEN [raised |-> FALSE, episodes |-> << >>]
    ELSE IF trial.agent = "file" THEN [raised |-> TRUE, episodes |-> << >>]
    ELSE LET dirs == episode_dirs(trial)
         IN IF \E k \in 1..Len(dirs) :
                  \/ ~IsNumeric(split(dirs[k].name, "-")[2])
                  \/ dirs[k].response = "invalid"
            THEN [raised |-> TRUE, episodes |-> << >>]
            ELSE [raised |-> FALSE, episodes |-> LoadEpisodes(dirs)]

\* parse_episodes: [] when agent/ is missing; agent_dir.iterdir() raises
\* when agent is a file; int(...) raises ValueError, outside the try, on a
\* directory name whose piece after the first '-' is not an integer.
parse_episodes(trial) ==
    IF trial.agent = "absent" THEN [raised |-> FALSE, episodes |-> << >>]
    ELSE IF trial.agent = "file" THEN [raised |-> TRUE, episodes |-> << >>]
    ELSE LET dirs == episode_dirs(trial)
         IN IF \E k \in 1..Len(dirs) : ~IsNumeric(split(dirs[k].name, "-")[2])
            THEN [raised |-> TRUE, episodes |-> << >>]
            ELSE [raised |-> FALSE, episodes |-> LoadEpisodes(dirs)]

\* dict.get(key, default) on a key that is missing or holds a string.
get(value, default) == IF value = NULL THEN default ELSE value[1]

\* The comprehension of lines 331-336 carrying 'message' for every status.
parse_test_resultsAnyMessage(trial) ==
    IF trial.ctrf.kind = "object"
    THEN [k \in 1..Len(trial.ctrf.tests) |->
            [status |-> get(trial.ctrf.tests[k].status, "unknown"),
             error_message |-> Some(get(trial.ctrf.tests[k].message, ""))]]
    ELSE << >>

\* parse_test_results: [] when ctrf.json is missing or unparseable, else one
\* result per test: status is test.get('status', 'unknown'), error_message
\* is test.get('message', '') if the status is 'failed', else None.
parse_test_results(trial) ==
    IF trial.ctrf.kind = "object"
    THEN [k \in 1..Len(trial.ctrf.tests) |->
            [status |-> get(trial.ctrf.tests[k].status, "unknown"),
             error_message |->
                IF trial.ctrf.tests[k].status = Some("failed")
                THEN Some(get(trial.ctrf.tests[k].message, ""))
                ELSE NULL]]
    ELSE << >>

\* A parser that never reads reward.txt.
parse_rewardZero(trial) == 0

\* parse_reward: 0.0 when reward.txt is missing, unreadable or not a number.
parse_reward(trial) ==
    IF trial.reward.kind = "text" /\ IsNumeric(trial.reward.text)
    THEN int(trial.reward.text)
    ELSE 0

-----------------------------------------------------------------------------
(* database.py: the rows *)

utcnow == "utcnow"

NewRun == [task_id |-> 1, status |-> "queued", completed_at |-> NULL]

NewAttemptQueued(i) ==
    [run_id |-> RunId, attempt_number |-> i + 1, status |-> "queued",
     reward |-> NULL, episode_count |-> NULL, output_path |-> NULL,
     error_message |-> NULL, completed_at |-> NULL]

\* Attempt(run_id=run.id, attempt_number=i + 1, status="running")
NewAttempt(i) ==
    [run_id |-> RunId, attempt_number |-> i + 1, status |-> "running",
     reward |-> NULL, episode_count |-> NULL, output_path |-> NULL,
     error_message |-> NULL, completed_at |-> NULL]

\* The success branch without attempt.error_message = None.
AttemptCompletedKeepError(row, result) ==
    [row EXCEPT !.status = "completed", !.reward = result.reward,
                !.episode_count = Some(Len(result.episodes)),
                !.output_path = result.output_path,
                !.completed_at = Some(utcnow)]

\* The success branch's writes to the attempt.
AttemptCompleted(row, result) ==
    [row EXCEPT !.status = "completed", !.reward = result.reward,
                !.episode_count = Some(Len(result.episodes)),
                !.output_path = result.output_path,
                !.error_message = NULL, !.completed_at = Some(utcnow)]

\* The handled-failure branch's writes to the attempt.
AttemptFailed(row, result) ==
    [row EXCEPT !.status = "failed", !.reward = Some(0),
                !.error_message = result.error, !.completed_at = Some(utcnow)]

AttemptWorkerErrorNoStamp(row) ==
    [row EXCEPT !.status = "failed", !.error_message = Some(WorkerErrorMsg)]

\* The except clause's writes to the attempt.
AttemptWorkerError(row) ==
    [row EXCEPT !.status = "failed", !.error_message = Some(WorkerErrorMsg),
                !.completed_at = Some(utcnow)]

\* run.attempts: the committed Attempts of the Run.
RunAttempts(r) == { a \in DOMAIN attempts : attempts[a].run_id = r }

RunningAttemptsNone(r, self) == { }

RunningAttemptsStale(r, self) ==
    { a \in RunAttempts(r) : attempts[a].status = "running" } \cup {self}

\* running_attempts = [a for a in run.attempts if a.status == 'running'],
\* as the session of the job of attempt self reads it.
RunningAttempts(r, self) ==
    { a \in RunAttempts(r) : attempts[a].status = "running" }

-----------------------------------------------------------------------------
(* main.py, storage.py: where an uploaded task is kept.  A path is the      *)
(* sequence of its parts, as Path.parts gives them: an absolute path starts *)
(* with "/".                                                                *)

\* UPLOAD_DIR: /data/uploads when the volume /data exists, else ./uploads.
UploadDirs == { << "/", "data", "uploads" >>, << "uploads" >> }

\* task_path of upload_task (lines 237-262): the directory holding task.toml
\* under UPLOAD_DIR / "{task_name}_{timestamp}" / "extracted".
LocalTaskPath(dir) == dir \o << "t_20251121", "extracted", "t" >>

\* s3_prefix of upload_task (line 272): "tasks/{task_name}_{timestamp}".
S3TaskPrefix == << "tasks", "t_20251121" >>

\* What a helper of storage.py does: return True, return False (storage
\* disabled, no client, ClientError), or raise any other exception.
StorageOutcomes == {"true", "false", "raise"}

\* An upload: whether the file name ends with '.zip', whether the archive
\* can be extracted, and where it holds task.toml: nowhere, at its root, in
\* a top-level directory, or only deeper.
UploadRequests ==
    [zip_name : BOOLEAN, extractable : BOOLEAN,
     manifest : {"none", "root", "dir", "nested"}]

\* upload_task accepting an archive whatever it holds.
upload_taskAnyArchive(req, uploaded, committed) ==
    IF ~req.zip_name THEN [status_code |-> 400, file_path |-> NULL]
    ELSE IF ~req.extractable THEN [status_code |-> 400, file_path |-> NULL]
    ELSE IF USE_CLOUD_STORAGE /\ uploaded = "raise"
         THEN [status_code |-> 500, file_path |-> NULL]
    ELSE IF ~committed THEN [status_code |-> 500, file_path |-> NULL]
    ELSE [status_code |-> 200,
          file_path |-> Some(IF USE_CLOUD_STORAGE /\ uploaded = "true"
                             THEN S3TaskPrefix
                             ELSE LocalTaskPath(UPLOAD_DIR))]

\* upload_task: the status code of the response and the file_path of the
\* Task row it stores, if any.  uploaded is what upload_directory_to_s3
\* does, committed whether db.commit() succeeds.
upload_task(req, uploaded, committed) ==
    IF ~req.zip_name THEN [status_code |-> 400, file_path |-> NULL]
    ELSE IF ~req.extractable THEN [status_code |-> 400, file_path |-> NULL]
    ELSE IF req.manifest # "dir" THEN [status_code |-> 400, file_path |-> NULL]
    ELSE IF USE_CLOUD_STORAGE /\ uploaded = "raise"
         THEN [status_code |-> 500, file_path |-> NULL]
    ELSE IF ~committed THEN [status_code |-> 500, file_path |-> NULL]
    ELSE [status_code |-> 200,
          file_path |-> Some(IF USE_CLOUD_STORAGE /\ uploaded = "true"
                             THEN S3TaskPrefix
                             ELSE LocalTaskPath(UPLOAD_DIR))]

\* The credentials of the compared executions: two of equal length and one
\* shorter.
Keys == { << "s", "k", "1" >>, << "s", "k", "2" >>, << "k" >> }

\* execute_harbor's locals of lines 31-58 before it assigns them; exists is
\* whether task_path exists on the executing machine.
NoStage ==
    [task_path |-> << >>, exists |-> FALSE, is_s3_path |-> FALSE,
     temp_task_dir |-> NULL, actual_task_path |-> << >>]

NoLog == [k \in Keys |-> << >>]

-----------------------------------------------------------------------------
(* The state after start-up and one upload: one Task, no request, no job. *)

EmptyContents ==
    [entries |-> { }, ctrf |-> [kind |-> "absent", tests |-> << >>],
     reward |-> [kind |-> "absent", text |-> << >>]]

NoFileSystem ==
    [output |-> [exists |-> FALSE, dates |-> << >>], contents |-> EmptyContents]

\* execute_harbor's locals before it assigns them.
NoLocals ==
    [trial_dir |-> NULL, episodes |-> << >>, test_results |-> << >>,
     reward |-> 0, result |-> NoResult]

\* The default configuration: remote storage disabled, no volume /data, and
\* nothing staged or logged yet.
StartStorage ==
    /\ USE_CLOUD_STORAGE = FALSE
    /\ UPLOAD_DIR = << "uploads" >>
    /\ uploads = << >>
    /\ task_file_path = (TaskId :> LocalTaskPath(<< "uploads" >>))
    /\ stage = NoStage
    /\ temp_dirs = { }
    /\ calls = << >>
    /\ log = NoLog

StartPipeline ==
    /\ USE_CELERY \in BOOLEAN
    /\ runs = << >>
    /\ attempts = << >>
    /\ episodes = [a \in AttemptIds |-> << >>]
    /\ test_results = [a \in AttemptIds |-> << >>]
    /\ cr_pc = "idle"
    /\ n_attempts = 0
    /\ cr_i = 0
    /\ cr_session = << >>
    /\ job_pc = [a \in AttemptIds |-> "none"]
    /\ job_retries = [a \in AttemptIds |-> 0]
    /\ job_result = [a \in AttemptIds |-> NoResult]
    /\ tasks = {TaskId}
    /\ delete_response = "none"
    /\ clear_response = "none"
    /\ redelivered = [a \in AttemptIds |-> 0]
    /\ fs = NoFileSystem
    /\ eh_pc = "idle"
    /\ eh = NoLocals

Start == StartPipeline /\ StartStorage

\* The default database (SQLite).  With no row ever deleted, no step of the
\* pipeline reads FOREIGN_KEYS to a different effect.
Init == Start /\ FOREIGN_KEYS = FALSE

\* Either database.
DeleteInit == Start /\ FOREIGN_KEYS \in BOOLEAN

-----------------------------------------------------------------------------
(* main.py: create_run *)

\* Lines 373-381: the Task is looked up, a missing Task ends the request
\* with 404; OPENROUTER_API_KEY is read from the environment, and the
\* request ends with 500 when it is not set.
CreateRun(n) ==
    /\ cr_pc = "idle"
    /\ n_attempts' = n
    /\ cr_i' = 0
    /\ \E openrouter_key \in BOOLEAN :
          cr_pc' = IF TaskId \in tasks /\ openrouter_key
                   THEN "insert_run" ELSE "failed"
    /\ UNCHANGED << admin, harbor, redelivered, USE_CELERY, staging, db, cr_session,
                    job_pc, job_retries, job_result >>

\* Lines 383-391: the Run is committed in status "queued".  With the Task
\* gone since the lookup, the insert violates the foreign key where the
\* database enforces it, and is stored where it does not.
CreateRunInsert ==
    /\ cr_pc = "insert_run"
    /\ IF TaskId \in tasks \/ ~FOREIGN_KEYS
       THEN /\ runs' = (RunId :> NewRun) @@ runs
            /\ cr_pc' = "loop"
       ELSE /\ cr_pc' = "failed"
            /\ UNCHANGED runs
    /\ UNCHANGED << admin, harbor, redelivered, USE_CELERY, staging, attempts, episodes,
                    test_results, n_attempts, cr_i, cr_session, job_pc,
                    job_retries, job_result >>

\* Lines 394-423, one iteration: the Attempt is flushed (not committed) and
\* its job is handed to Celery or to a new thread.  The flush violates the
\* foreign key when the Run is gone; task.file_path, expired by the commit
\* of line 390, is reloaded in the first iteration and raises when the Task
\* is gone.  Either exception ends the request and rolls the session back.
CreateRunDispatch ==
    /\ cr_pc = "loop"
    /\ cr_i < n_attempts
    /\ IF \/ FOREIGN_KEYS /\ RunId \notin DOMAIN runs
          \/ cr_i = 0 /\ TaskId \notin tasks
       THEN /\ cr_pc' = "failed"
            /\ cr_session' = << >>
            /\ UNCHANGED << cr_i, job_pc >>
       ELSE /\ cr_session' = ((cr_i + 1) :> NewAttempt(cr_i)) @@ cr_session
            /\ job_pc' = [job_pc EXCEPT ![cr_i + 1] = "queued"]
            /\ cr_i' = cr_i + 1
            /\ UNCHANGED cr_pc
    /\ UNCHANGED << admin, harbor, redelivered, USE_CELERY, staging, db, n_attempts,
                    job_retries, job_result >>

\* Line 425: the Attempts become visible to the other sessions.
CreateRunCommit ==
    /\ cr_pc = "loop"
    /\ cr_i >= n_attempts
    /\ attempts' = cr_session @@ attempts
    /\ cr_session' = << >>
    /\ cr_pc' = "set_running"
    /\ UNCHANGED << admin, harbor, redelivered, USE_CELERY, staging, runs, episodes, test_results, n_attempts, cr_i,
                    job_pc, job_retries, job_result >>

\* Lines 427-431: run.status = "running", commit, return.  With the Run
\* row gone the UPDATE matches no row and the commit raises.
CreateRunSetRunning ==
    /\ cr_pc = "set_running"
    /\ IF RunId \in DOMAIN runs
       THEN /\ runs' = [runs EXCEPT ![RunId].status = "running"]
            /\ cr_pc' = "returned"
       ELSE /\ cr_pc' = "failed"
            /\ UNCHANGED runs
    /\ UNCHANGED << admin, harbor, redelivered, USE_CELERY, staging, attempts, episodes, test_results, n_attempts, cr_i,
                    cr_session, job_pc, job_retries, job_result >>

-----------------------------------------------------------------------------
(* Steps common to execute_harbor_task and execute_attempt_locally *)

EpisodeRows(result) ==
    [k \in 1..Len(result.episodes) |-> [episode_number |-> result.episodes[k]]]

TestResultRows(result) ==
    [k \in 1..Len(result.test_results) |->
        [status |-> result.test_results[k].status,
         error_message |-> result.test_results[k].error_message]]

\* A commit either writes everything or fails, rolls back and raises.
CommitOutcomes == BOOLEAN

\* result = execute_harbor(...), then if result['success']: ... db.commit(),
\* else: ... db.commit().  execute_harbor reads and writes no table, so the
\* step draws its result when the result is written.  A failed commit raises
\* into the except clause, which does not read result.
\* The commit of an attempt's own row also fails when the row is gone (the
\* UPDATE matches no row), before any Episode or TestResult is stored.
ResultWrite(self, result) ==
    \E committed \in CommitOutcomes :
        IF committed /\ self \in DOMAIN attempts
        THEN /\ attempts' = [attempts EXCEPT ![self] =
                   IF result.success
                   THEN AttemptCompleted(@, result)
                   ELSE AttemptFailed(@, result)]
             /\ episodes' = [episodes EXCEPT ![self] =
                   IF result.success THEN @ \o EpisodeRows(result) ELSE @]
             /\ test_results' = [test_results EXCEPT ![self] =
                   IF result.success THEN @ \o TestResultRows(result) ELSE @]
             /\ job_result' = [job_result EXCEPT ![self] = result]
             /\ job_pc' = [job_pc EXCEPT ![self] = "recompute"]
        ELSE /\ job_pc' = [job_pc EXCEPT ![self] = "handler"]
             /\ UNCHANGED << attempts, episodes, test_results, job_result >>

Finalize(self) ==
    /\ job_pc[self] = "exec"
    /\ \E result \in Results : ResultWrite(self, result)
    /\ UNCHANGED << admin, harbor, redelivered, USE_CELERY, staging, runs, cr, job_retries >>

\* update_run_status_if_complete letting its exceptions out to the job.
RecomputeRaises(self) ==
    /\ job_pc[self] = "recompute"
    /\ job_pc' = [job_pc EXCEPT ![self] = "handler"]
    /\ UNCHANGED << admin, harbor, redelivered, USE_CELERY, staging, db, cr,
                    job_retries, job_result >>

\* update_run_status_if_complete, the reads: the Run and its running Attempts.
\* With an Attempt still running the job returns (and its request is dropped).
\* The argument attempt.run_id is reloaded after the commit and raises, into
\* the except clause, when the Attempt row is gone.
Recompute(self) ==
    /\ job_pc[self] = "recompute"
    /\ IF self \notin DOMAIN attempts
       THEN /\ job_pc' = [job_pc EXCEPT ![self] = "handler"]
            /\ UNCHANGED job_retries
       ELSE IF RunId \in DOMAIN runs /\ RunningAttempts(RunId, self) = { }
       THEN /\ job_pc' = [job_pc EXCEPT ![self] = "write_run"]
            /\ UNCHANGED job_retries
       ELSE /\ job_pc' = [job_pc EXCEPT ![self] = "done"]
            /\ job_retries' = [job_retries EXCEPT ![self] = 0]
    /\ UNCHANGED << admin, harbor, redelivered, USE_CELERY, staging, db, cr, job_result >>

\* update_run_status_if_complete writing the outcome of the Attempts: 'failed'
\* for a Run none of whose Attempts completed.
WriteRunByOutcome(self) ==
    /\ job_pc[self] = "write_run"
    /\ runs' = IF RunId \in DOMAIN runs
               THEN [runs EXCEPT ![RunId].status =
                       IF \E a \in DOMAIN attempts : attempts[a].status = "completed"
                       THEN "completed" ELSE "failed"]
               ELSE runs
    /\ job_pc' = [job_pc EXCEPT ![self] = "done"]
    /\ job_retries' = [job_retries EXCEPT ![self] = 0]
    /\ UNCHANGED << admin, harbor, redelivered, USE_CELERY, staging, attempts, episodes, test_results, cr,
                    job_result >>

\* update_run_status_if_complete, the write: run.status = 'completed', commit;
\* then the job returns.  With the Run row gone the commit raises and the
\* function swallows it.
WriteRun(self) ==
    /\ job_pc[self] = "write_run"
    /\ runs' = IF RunId \in DOMAIN runs
               THEN [runs EXCEPT ![RunId].status = "completed"]
               ELSE runs
    /\ job_pc' = [job_pc EXCEPT ![self] = "done"]
    /\ job_retries' = [job_retries EXCEPT ![self] = 0]
    /\ UNCHANGED << admin, harbor, redelivered, USE_CELERY, staging, attempts, episodes, test_results, cr,
                    job_result >>

\* The except clause up to its own commit: the attempt is looked up again
\* and marked failed; a failure of this commit is swallowed.
HandlerWriteAll(self, committed) ==
    IF self \in DOMAIN attempts /\ committed
    THEN [a \in DOMAIN attempts |->
            IF a = self \/ attempts[a].status = "running"
            THEN AttemptWorkerError(attempts[a]) ELSE attempts[a]]
    ELSE attempts

HandlerWrite(self, committed) ==
    IF self \in DOMAIN attempts /\ committed
    THEN [attempts EXCEPT ![self] = AttemptWorkerError(@)]
    ELSE attempts

HandlerCommit(self) ==
    \E committed \in CommitOutcomes : attempts' = HandlerWrite(self, committed)

-----------------------------------------------------------------------------
(* celery_worker.py: execute_harbor_task, a Celery task with late ack *)

\* Lines 157-160: the attempt is looked up first; a missing row raises.
TaskStart(self) ==
    /\ USE_CELERY
    /\ job_pc[self] = "queued"
    /\ job_pc' = [job_pc EXCEPT ![self] =
          IF self \in DOMAIN attempts THEN "exec" ELSE "handler"]
    /\ UNCHANGED << admin, harbor, redelivered, USE_CELERY, staging, db, cr, job_retries, job_result >>

\* Lines 241-256 and the autoretry of lines 120-130: the attempt is marked
\* failed and the exception re-raised; Celery runs the job again while
\* retries are left.
TaskHandler(self) ==
    /\ USE_CELERY
    /\ job_pc[self] = "handler"
    /\ HandlerCommit(self)
    /\ IF job_retries[self] < max_retries
       THEN /\ job_retries' = [job_retries EXCEPT ![self] = @ + 1]
            /\ job_pc' = [job_pc EXCEPT ![self] = "queued"]
       ELSE /\ job_retries' = [job_retries EXCEPT ![self] = 0]
            /\ job_pc' = [job_pc EXCEPT ![self] = "gave_up"]
    /\ UNCHANGED << admin, harbor, redelivered, USE_CELERY, staging, runs, episodes, test_results, cr, job_result >>

-----------------------------------------------------------------------------
(* main.py: execute_attempt_locally, a daemon thread *)

\* Lines 62-73: the runner is executed, then the attempt is looked up; a
\* missing row ends the thread.
LocalStart(self) ==
    /\ ~USE_CELERY
    /\ job_pc[self] = "queued"
    /\ job_pc' = [job_pc EXCEPT ![self] =
          IF self \in DOMAIN attempts THEN "exec" ELSE "done"]
    /\ UNCHANGED << admin, harbor, redelivered, USE_CELERY, staging, db, cr, job_retries, job_result >>

\* Lines 121-132: the attempt is marked failed; nothing is re-raised.
LocalHandler(self) ==
    /\ ~USE_CELERY
    /\ job_pc[self] = "handler"
    /\ HandlerCommit(self)
    /\ job_pc' = [job_pc EXCEPT ![self] = "done"]
    /\ UNCHANGED << admin, harbor, redelivered, USE_CELERY, staging, runs, episodes, test_results, cr, job_retries,
                    job_result >>

-----------------------------------------------------------------------------

Next ==
    \/ \E n \in 0..MaxAttempts : CreateRun(n)
    \/ CreateRunInsert
    \/ CreateRunDispatch
    \/ CreateRunCommit
    \/ CreateRunSetRunning
    \/ \E self \in AttemptIds :
        \/ TaskStart(self)
        \/ TaskHandler(self)
        \/ LocalStart(self)
        \/ LocalHandler(self)
        \/ Finalize(self)
        \/ Recompute(self)
        \/ WriteRun(self)

Spec == Init /\ [][Next]_vars

-----------------------------------------------------------------------------
(* main.py: delete_all_tasks, and clear_tasks.py: clear_all_tasks.         *)
(* Each runs its statements in one transaction of its own session; the     *)
(* statements write nothing the other sessions see before the commit, so   *)
(* a request is one step.  The database serializes the transaction against *)
(* a create_run that holds flushed Attempts: SQLite by its write lock,     *)
(* PostgreSQL by the lock the Attempt's insert holds on its Run, after     *)
(* which the delete of the Run violates the foreign key.                   *)

\* Largest n_attempts of the request the deletions race with.
MaxDeleteAttempts == 1

DeletedTablesNoResults == {"attempts", "runs", "tasks"}

\* The tables whose rows delete_all_tasks deletes (lines 304-314).
DeletedTables == {"episodes", "test_results", "attempts", "runs", "tasks"}

\* Lines 297-325: every statement succeeded and the commit made the
\* deletions visible at once, or a statement or the commit raised and the
\* session was rolled back.
DeleteAllTasks ==
    /\ delete_response = "none"
    /\ \E committed \in CommitOutcomes :
        IF committed /\ cr_session = << >>
        THEN /\ episodes' = IF "episodes" \in DeletedTables
                            THEN [a \in AttemptIds |-> << >>] ELSE episodes
             /\ test_results' = IF "test_results" \in DeletedTables
                                THEN [a \in AttemptIds |-> << >>]
                                ELSE test_results
             /\ attempts' = IF "attempts" \in DeletedTables THEN << >> ELSE attempts
             /\ runs' = IF "runs" \in DeletedTables THEN << >> ELSE runs
             /\ tasks' = IF "tasks" \in DeletedTables THEN { } ELSE tasks
             /\ delete_response' = "success"
        ELSE /\ delete_response' = "error"
             /\ UNCHANGED << db, tasks >>
    /\ UNCHANGED << harbor, redelivered, USE_CELERY, staging, FOREIGN_KEYS,
                    clear_response, cr, job_pc, job_retries, job_result >>

\* clear_tasks.py lines 10-35: with no Task the script returns; else it
\* deletes the rows of tasks, and of no other table, by one bulk DELETE and
\* commits.  The DELETE violates the foreign key of a Run that references
\* a Task where the database enforces it; the script then rolls back.
ClearAllTasks ==
    /\ clear_response = "none"
    /\ IF tasks = { }
       THEN /\ clear_response' = "no_tasks"
            /\ UNCHANGED tasks
       ELSE \E committed \in CommitOutcomes :
            IF /\ committed
               /\ cr_session = << >>
               /\ ~(FOREIGN_KEYS /\ \E r \in DOMAIN runs : runs[r].task_id \in tasks)
            THEN /\ tasks' = { }
                 /\ clear_response' = "deleted"
            ELSE /\ clear_response' = "error"
                 /\ UNCHANGED tasks
    /\ UNCHANGED << harbor, redelivered, USE_CELERY, staging, FOREIGN_KEYS,
                    delete_response, db, cr, job_pc, job_retries, job_result >>

DeleteNext ==
    \/ \E n \in 0..MaxDeleteAttempts : CreateRun(n)
    \/ CreateRunInsert
    \/ CreateRunDispatch
    \/ CreateRunCommit
    \/ CreateRunSetRunning
    \/ \E self \in AttemptIds :
        \/ TaskStart(self)
        \/ TaskHandler(self)
        \/ LocalStart(self)
        \/ LocalHandler(self)
        \/ Finalize(self)
        \/ Recompute(self)
        \/ WriteRun(self)
    \/ DeleteAllTasks
    \/ ClearAllTasks

DeleteSpec == DeleteInit /\ [][DeleteNext]_vars

-----------------------------------------------------------------------------
(* celery_app.py: late acknowledgement.  The message of a task is          *)
(* acknowledged when the task has returned or raised for the last time;    *)
(* until then the loss of the executing worker process puts it back on the *)
(* queue (task_acks_late, task_reject_on_worker_lost).                     *)

\* Largest n_attempts of the request whose workers may be lost, and most
\* losses per task.
MaxLossAttempts == 1
MaxRedeliveries == 1

\* A task that is executing: delivered and not yet acknowledged.
Executing == {"exec", "handler", "recompute", "write_run"}

\* celery_app.py lines 44-45.  The worker process executing the task of
\* attempt self dies: what it had not committed is lost, and its message is
\* delivered again with the same retry count.
WorkerLost(self) ==
    /\ USE_CELERY
    /\ job_pc[self] \in Executing
    /\ redelivered[self] < MaxRedeliveries
    /\ job_pc' = [job_pc EXCEPT ![self] = "queued"]
    /\ redelivered' = [redelivered EXCEPT ![self] = @ + 1]
    /\ UNCHANGED << admin, harbor, USE_CELERY, staging, db, cr, job_retries, job_result >>

LossNext ==
    \/ \E n \in 0..MaxLossAttempts : CreateRun(n)
    \/ CreateRunInsert
    \/ CreateRunDispatch
    \/ CreateRunCommit
    \/ CreateRunSetRunning
    \/ \E self \in AttemptIds :
        \/ TaskStart(self)
        \/ TaskHandler(self)
        \/ LocalStart(self)
        \/ LocalHandler(self)
        \/ Finalize(self)
        \/ Recompute(self)
        \/ WriteRun(self)
        \/ WorkerLost(self)

LossSpec == Init /\ [][LossNext]_vars

-----------------------------------------------------------------------------
(* main.py: create_run when an iteration of its loop raises *)

\* Lines 394-423, an iteration that raises: the flush, the creation of the
\* output directory, the call of delay() or the start of the thread fails.
\* The request ends with 500 and its session is rolled back: the Attempts
\* flushed so far are dropped, the Run committed at line 390 and the jobs
\* dispatched by the earlier iterations stay.
CreateRunDispatchFails ==
    /\ cr_pc = "loop"
    /\ cr_i < n_attempts
    /\ cr_pc' = "failed"
    /\ cr_session' = << >>
    /\ UNCHANGED << admin, harbor, redelivered, USE_CELERY, staging, db, n_attempts,
                    cr_i, job_pc, job_retries, job_result >>

DispatchNext ==
    \/ \E n \in 0..MaxAttempts : CreateRun(n)
    \/ CreateRunInsert
    \/ CreateRunDispatch
    \/ CreateRunDispatchFails
    \/ CreateRunCommit
    \/ CreateRunSetRunning
    \/ \E self \in AttemptIds :
        \/ TaskStart(self)
        \/ TaskHandler(self)
        \/ LocalStart(self)
        \/ LocalHandler(self)
        \/ Finalize(self)
        \/ Recompute(self)
        \/ WriteRun(self)

DispatchSpec == Init /\ [][DispatchNext]_vars

-----------------------------------------------------------------------------
(* harbor_runner.py, execute_harbor lines 171-226, on a concrete output    *)
(* directory, for the job of attempt 1: the runner has exited with code 0. *)

\* An output directory holding one trial directory with agent/.
OneTrialOutput ==
    [exists |-> TRUE,
     dates |-> << [is_dir |-> TRUE,
                   trials |-> << [is_dir |-> TRUE, agent |-> "dir"] >>] >>]

\* The inputs: every output directory (its trial directories empty), and
\* every content of the trial directory of OneTrialOutput.
FileSystems ==
    { [output |-> out, contents |-> EmptyContents] : out \in OutputDirs }
    \cup { [output |-> OneTrialOutput, contents |-> c] : c \in TrialContents }

\* The trial directory at path p as the parsers see it.
TrialAt(p) ==
    [agent |-> fs.output.dates[p[1]].trials[p[2]].agent,
     entries |-> fs.contents.entries,
     ctrf |-> fs.contents.ctrf,
     reward |-> fs.contents.reward]

\* create_run has returned for one attempt, whose job has looked its row up
\* and called execute_harbor.
JobStarted ==
    /\ USE_CELERY \in BOOLEAN
    /\ runs = (RunId :> [NewRun EXCEPT !.status = "running"])
    /\ attempts = (1 :> NewAttempt(0))
    /\ episodes = [a \in AttemptIds |-> << >>]
    /\ test_results = [a \in AttemptIds |-> << >>]
    /\ cr_pc = "returned"
    /\ n_attempts = 1
    /\ cr_i = 1
    /\ cr_session = << >>
    /\ job_pc = [a \in AttemptIds |-> IF a = 1 THEN "exec" ELSE "none"]
    /\ job_retries = [a \in AttemptIds |-> 0]
    /\ job_result = [a \in AttemptIds |-> NoResult]
    /\ tasks = {TaskId}
    /\ FOREIGN_KEYS = FALSE
    /\ delete_response = "none"
    /\ clear_response = "none"
    /\ redelivered = [a \in AttemptIds |-> 0]

\* The runner has exited with code 0.
HarborInit ==
    /\ JobStarted
    /\ fs \in FileSystems
    /\ eh_pc = "find_trial_directory"
    /\ eh = NoLocals
    /\ StartStorage

\* Lines 171-181.
FindTrialDirectory ==
    /\ eh_pc = "find_trial_directory"
    /\ LET trial_dir == find_trial_directory(fs.output)
       IN IF trial_dir = NULL
          THEN /\ eh' = [eh EXCEPT !.result = FailureResult(TrialNotFoundMsg)]
               /\ eh_pc' = "return"
          ELSE /\ eh' = [eh EXCEPT !.trial_dir = trial_dir]
               /\ eh_pc' = "parse_episodes"
    /\ UNCHANGED << admin, redelivered, USE_CELERY, staging, db, cr, job_pc, job_retries,
                    job_result, fs >>

\* Line 184; an exception of the parser is caught at lines 218-226.
ParseEpisodes ==
    /\ eh_pc = "parse_episodes"
    /\ LET r == parse_episodes(TrialAt(eh.trial_dir[1]))
       IN IF r.raised
          THEN /\ eh' = [eh EXCEPT !.result = FailureResult(UnexpectedMsg)]
               /\ eh_pc' = "return"
          ELSE /\ eh' = [eh EXCEPT !.episodes = r.episodes]
               /\ eh_pc' = "parse_test_results"
    /\ UNCHANGED << admin, redelivered, USE_CELERY, staging, db, cr, job_pc, job_retries,
                    job_result, fs >>

\* Line 185.
ParseTestResults ==
    /\ eh_pc = "parse_test_results"
    /\ eh' = [eh EXCEPT !.test_results = parse_test_results(TrialAt(eh.trial_dir[1]))]
    /\ eh_pc' = "parse_reward"
    /\ UNCHANGED << admin, redelivered, USE_CELERY, staging, db, cr, job_pc, job_retries,
                    job_result, fs >>

\* Lines 186-207.
ParseReward ==
    /\ eh_pc = "parse_reward"
    /\ LET reward == parse_reward(TrialAt(eh.trial_dir[1]))
       IN eh' = [eh EXCEPT !.reward = reward,
                           !.result = SuccessResult(
                               [reward |-> reward, episodes |-> eh.episodes,
                                test_results |-> eh.test_results])]
    /\ eh_pc' = "return"
    /\ UNCHANGED << admin, redelivered, USE_CELERY, staging, db, cr, job_pc, job_retries,
                    job_result, fs >>

\* execute_harbor returns and the job writes the result to its attempt.
HarborReturn ==
    /\ eh_pc = "return"
    /\ job_pc[1] = "exec"
    /\ ResultWrite(1, eh.result)
    /\ eh_pc' = "done"
    /\ UNCHANGED << admin, redelivered, USE_CELERY, staging, runs, cr, job_retries,
                    fs, eh >>

HarborNext ==
    \/ FindTrialDirectory
    \/ ParseEpisodes
    \/ ParseTestResults
    \/ ParseReward
    \/ HarborReturn

HarborSpec == HarborInit /\ [][HarborNext]_vars

-----------------------------------------------------------------------------
(* main.py: upload_task *)

\* Most uploads after the first.
MaxUploads == 2

\* The file_path values upload_task stores under the configuration.
StoredPaths ==
    { upload_task(req, uploaded, TRUE).file_path[1] :
        req \in { r \in UploadRequests :
                    r.zip_name /\ r.extractable /\ r.manifest = "dir" },
        uploaded \in {"true", "false"} }

\* One Task has been uploaded, under either configuration.
UploadInit ==
    /\ StartPipeline
    /\ FOREIGN_KEYS = FALSE
    /\ USE_CLOUD_STORAGE \in BOOLEAN
    /\ UPLOAD_DIR \in UploadDirs
    /\ uploads = << >>
    /\ task_file_path \in { (TaskId :> path) : path \in StoredPaths }
    /\ stage = NoStage
    /\ temp_dirs = { }
    /\ calls = << >>
    /\ log = NoLog

\* POST /api/tasks, lines 225-289: the request is answered and, when it is
\* accepted, the Task row stored.
UploadTask(req) ==
    /\ Len(uploads) < MaxUploads
    /\ \E uploaded \in StorageOutcomes, committed \in CommitOutcomes :
        LET response == upload_task(req, uploaded, committed)
            id == Cardinality(tasks) + 1
        IN /\ uploads' = Append(uploads,
                  [request |-> req, status_code |-> response.status_code])
           /\ IF response.file_path # NULL
              THEN /\ tasks' = tasks \cup {id}
                   /\ task_file_path' = task_file_path @@ (id :> response.file_path[1])
              ELSE UNCHANGED << tasks, task_file_path >>
    /\ UNCHANGED << harbor, redelivered, USE_CELERY, db, cr, job_pc, job_retries,
                    job_result, FOREIGN_KEYS, delete_response, clear_response,
                    USE_CLOUD_STORAGE, UPLOAD_DIR, stage, temp_dirs, calls, log >>

UploadNext == \E req \in UploadRequests : UploadTask(req)

UploadSpec == UploadInit /\ [][UploadNext]_vars

-----------------------------------------------------------------------------
(* harbor_runner.py: execute_harbor from its first line, for the job of     *)
(* attempt 1, with what it stages, calls, logs and cleans up.               *)

\* The directory tempfile.mkdtemp(prefix="harbor_task_") creates.
TempTaskDir == << "/", "tmp", "harbor_task_1" >>

\* What the runner writes to its standard error: nothing, a text, or a text
\* made from the OPENROUTER_API_KEY of its environment.
RunnerOutputs == {"none", "text", "by_key"}

\* The first 1000 characters of the runner's standard error, for credential k.
Stderr(output, k) == IF output = "by_key" THEN k ELSE << "e", "r", "r" >>

\* The log with the lines Lines(k) appended for every credential k.
Logged(Lines(_)) == [k \in Keys |-> log[k] \o Lines(k)]

\* A call to a helper or to the runner, with its argument and how it ended.
Call(name, arg, outcome) == [call |-> name, arg |-> arg, outcome |-> outcome]

\* The finally clause leaving the directory in place.
CleanupNever(temp_task_dir, dirs) == dirs

\* Lines 227-233: shutil.rmtree(temp_task_dir) if it was created.
Cleanup(temp_task_dir, dirs) ==
    IF temp_task_dir # NULL THEN dirs \ {temp_task_dir[1]} ELSE dirs

StageInit ==
    /\ JobStarted
    /\ fs = NoFileSystem
    /\ eh_pc = "stage"
    /\ eh = NoLocals
    /\ USE_CLOUD_STORAGE \in BOOLEAN
    /\ UPLOAD_DIR \in UploadDirs
    /\ uploads = << >>
    /\ task_file_path \in { (TaskId :> path) : path \in StoredPaths }
    /\ stage = NoStage
    /\ temp_dirs = { }
    /\ calls = << >>
    /\ log = NoLog

\* Lines 31-58.  exists is whether the stored path exists on this machine (an
\* S3 prefix does not), downloaded what download_directory_from_s3 does.
StageTask ==
    /\ eh_pc = "stage"
    /\ \E exists \in BOOLEAN, downloaded \in StorageOutcomes :
        LET task_path == task_file_path[TaskId]
            is_s3_path == USE_CLOUD_STORAGE /\ (task_path[1] # "/" \/ ~exists)
            Line41(k) == << << "Downloading task from S3", task_path, TempTaskDir >> >>
        IN /\ task_path = S3TaskPrefix => ~exists
           /\ IF is_s3_path
              THEN /\ temp_dirs' = temp_dirs \cup {TempTaskDir}
                   /\ log' = Logged(Line41)
                   /\ calls' = Append(calls,
                         Call("download_directory_from_s3", task_path, downloaded))
                   /\ stage' = [task_path |-> task_path, exists |-> exists,
                                is_s3_path |-> TRUE,
                                temp_task_dir |-> Some(TempTaskDir),
                                actual_task_path |->
                                    IF downloaded = "true" THEN TempTaskDir ELSE << >>]
                   /\ IF downloaded = "true"
                      THEN eh_pc' = "run" /\ UNCHANGED eh
                      ELSE /\ eh_pc' = "finally"
                           /\ eh' = [eh EXCEPT !.result =
                                 IF downloaded = "false"
                                 THEN FailureResult(DownloadFailedMsg)
                                 ELSE FailureResult(UnexpectedMsg)]
              ELSE /\ stage' = [task_path |-> task_path, exists |-> exists,
                                is_s3_path |-> FALSE, temp_task_dir |-> NULL,
                                actual_task_path |-> task_path]
                   /\ eh_pc' = "run"
                   /\ UNCHANGED << eh, temp_dirs, calls, log >>
    /\ UNCHANGED << admin, redelivered, USE_CELERY, db, cr, job_pc, job_retries,
                    job_result, fs, USE_CLOUD_STORAGE, UPLOAD_DIR, uploads,
                    task_file_path >>

\* Lines 59-169: the binary, the command, the logging, the Docker check and
\* the runner.
RunHarbor ==
    /\ eh_pc = "run"
    /\ \E harbor_bin_exists \in BOOLEAN, docker \in BOOLEAN,
          proc \in {"exit0", "nonzero", "timeout", "raise"},
          output \in RunnerOutputs :
        LET Before(k) ==
                << << "Harbor command", stage.actual_task_path >>,
                   << "Task path (original)", stage.task_path >>,
                   << "Task path (actual)", stage.actual_task_path >>,
                   << "Output dir" >>,
                   << "API key length", Len(k) >>,
                   << "DOCKER_HOST" >>,
                   << "Using S3 for task", stage.is_s3_path >>,
                   << "Docker daemon", docker >> >>
            After(k) ==
                << << "Harbor execution completed with returncode", proc >>,
                   << "Harbor STDOUT" >> >>
                \o (IF output = "none" THEN << >>
                    ELSE << << "Harbor STDERR", Stderr(output, k) >> >>)
            All(k) == Before(k) \o After(k)
        IN IF ~harbor_bin_exists
           THEN /\ eh' = [eh EXCEPT !.result = FailureResult(BinaryMissingMsg)]
                /\ eh_pc' = "finally"
                /\ UNCHANGED << calls, log >>
           ELSE /\ calls' = Append(calls,
                      Call("harbor run", stage.actual_task_path, proc))
                /\ CASE proc = "timeout" ->
                          /\ log' = Logged(Before)
                          /\ eh' = [eh EXCEPT !.result = TimeoutResult]
                          /\ eh_pc' = "finally"
                     [] proc = "raise" ->
                          /\ log' = Logged(Before)
                          /\ eh' = [eh EXCEPT !.result = FailureResult(UnexpectedMsg)]
                          /\ eh_pc' = "finally"
                     [] proc = "nonzero" ->
                          /\ log' = Logged(All)
                          /\ eh' = [eh EXCEPT !.result = FailureResult(NonZeroExitMsg)]
                          /\ eh_pc' = "finally"
                     [] proc = "exit0" ->
                          /\ log' = Logged(All)
                          /\ eh_pc' = "parse"
                          /\ UNCHANGED eh
    /\ UNCHANGED << admin, redelivered, USE_CELERY, db, cr, job_pc, job_retries,
                    job_result, fs, USE_CLOUD_STORAGE, UPLOAD_DIR, uploads,
                    task_file_path, stage, temp_dirs >>

\* Lines 171-186: find_trial_directory and the parsers, by what they return.
ParseOutput ==
    /\ eh_pc = "parse"
    /\ \E found \in BOOLEAN, raised \in BOOLEAN, trial \in TrialOutputs :
        IF ~found
        THEN /\ eh' = [eh EXCEPT !.result = FailureResult(TrialNotFoundMsg)]
             /\ eh_pc' = "finally"
        ELSE IF raised
        THEN /\ eh' = [eh EXCEPT !.result = FailureResult(UnexpectedMsg)]
             /\ eh_pc' = "finally"
        ELSE /\ eh' = [eh EXCEPT !.trial_dir = Some(<< 1, 1 >>),
                                 !.episodes = trial.episodes,
                                 !.test_results = trial.test_results,
                                 !.reward = trial.reward]
             /\ eh_pc' = "archive"
    /\ UNCHANGED << admin, redelivered, USE_CELERY, db, cr, job_pc, job_retries,
                    job_result, fs, staging >>

\* Lines 188-207.  uploaded is what upload_directory_to_s3 does; an exception
\* it raises is caught at lines 218-226.
ArchiveOutput ==
    /\ eh_pc = "archive"
    /\ LET parsed == SuccessResult([reward |-> eh.reward, episodes |-> eh.episodes,
                                    test_results |-> eh.test_results])
           Line195(k) == << << "Uploading Harbor output to S3" >> >>
           Line198(k) == << << "Uploading Harbor output to S3" >>,
                            << "Failed to upload Harbor output to S3" >> >>
       IN IF USE_CLOUD_STORAGE
          THEN \E uploaded \in StorageOutcomes :
                /\ calls' = Append(calls,
                      Call("upload_directory_to_s3", << "outputs" >>, uploaded))
                /\ log' = IF uploaded = "false" THEN Logged(Line198)
                          ELSE Logged(Line195)
                /\ eh' = [eh EXCEPT !.result =
                             IF uploaded = "raise"
                             THEN FailureResult(UnexpectedMsg) ELSE parsed]
          ELSE /\ eh' = [eh EXCEPT !.result = parsed]
               /\ UNCHANGED << calls, log >>
    /\ eh_pc' = "finally"
    /\ UNCHANGED << admin, redelivered, USE_CELERY, db, cr, job_pc, job_retries,
                    job_result, fs, USE_CLOUD_STORAGE, UPLOAD_DIR, uploads,
                    task_file_path, stage, temp_dirs >>

\* Lines 227-233, then execute_harbor returns and the job writes the result
\* to its attempt.
ReturnResult ==
    /\ eh_pc = "finally"
    /\ job_pc[1] = "exec"
    /\ LET Line232(k) ==
              IF stage.temp_task_dir # NULL /\ stage.temp_task_dir[1] \in temp_dirs
              THEN << << "Cleaning up temporary task directory",
                         stage.temp_task_dir[1] >> >>
              ELSE << >>
       IN log' = Logged(Line232)
    /\ temp_dirs' = Cleanup(stage.temp_task_dir, temp_dirs)
    /\ ResultWrite(1, eh.result)
    /\ eh_pc' = "done"
    /\ UNCHANGED << admin, redelivered, USE_CELERY, runs, cr, job_retries, fs, eh,
                    USE_CLOUD_STORAGE, UPLOAD_DIR, uploads, task_file_path,
                    stage, calls >>

StageNext ==
    \/ StageTask
    \/ RunHarbor
    \/ ParseOutput
    \/ ArchiveOutput
    \/ ReturnResult

StageSpec == StageInit /\ [][StageNext]_vars

-----------------------------------------------------------------------------
(* Properties *)

Terminal == {"completed", "failed"}

\* create_run has returned and every job it dispatched has ended: the task
\* returned or ran out of retries, the thread ended.
AllJobsEnded ==
    /\ cr_pc = "returned"
    /\ \A a \in 1..n_attempts : job_pc[a] \in {"done", "gave_up"}

\* C1: in every reachable state, every Attempt whose status is 'completed' or
\* 'failed' has a non-null completed_at, whichever branch (success, handled
\* failure, worker error) of either executor wrote the status.
C1_TerminalHasCompletedAt ==
    \A a \in DOMAIN attempts :
        attempts[a].status \in Terminal => attempts[a].completed_at # NULL

\* C1's case: on the Celery path one Attempt was marked failed by the except
\* clause and another finished through a result branch.
C1_Witness ==
    /\ USE_CELERY
    /\ \E a, b \in DOMAIN attempts :
        /\ attempts[a].status = "failed"
        /\ attempts[a].error_message = Some(WorkerErrorMsg)
        /\ attempts[a].completed_at # NULL
        /\ attempts[b].status = "completed"
        /\ attempts[b].completed_at # NULL

\* C2: every Attempt created by create_run eventually leaves status 'running'.
\* Stated on the runs that have come to rest: once create_run has returned
\* and every dispatched job has ended, no Attempt is left in 'running'.
C2_NoAttemptLeftRunning ==
    AllJobsEnded => \A a \in RunAttempts(RunId) : attempts[a].status # "running"

\* C3: a Run's status is monotonic: no step takes a Run from 'completed' to
\* another status.
C3_RunCompletedIsStable ==
    [][\A r \in DOMAIN runs :
          runs[r].status = "completed" => runs'[r].status = "completed"]_vars

\* C4: for every Run created by create_run (any n_attempts >= 0), once none of
\* its Attempts is 'running' the Run's status eventually becomes 'completed'.
\* Stated on the runs that have come to rest: once create_run has returned,
\* every dispatched job has ended and no Attempt is 'running', the Run is
\* 'completed'.
C4_RunCompletesWhenNoneRunning ==
    ( /\ AllJobsEnded
      /\ \A a \in RunAttempts(RunId) : attempts[a].status # "running" )
    => runs[RunId].status = "completed"

\* C5: in every reachable state, a Run whose status is 'completed' has no
\* Attempt in status 'running'.
C5_CompletedRunHasNoneRunning ==
    \A r \in DOMAIN runs :
        runs[r].status = "completed" =>
            \A a \in RunAttempts(r) : attempts[a].status # "running"

\* C5's case: the Run of two Attempts was marked completed while create_run
\* had not yet returned.
C5_Witness ==
    /\ RunId \in DOMAIN runs
    /\ runs[RunId].status = "completed"
    /\ Cardinality(RunAttempts(RunId)) = 2
    /\ cr_pc = "set_running"

C7_AttemptsCreatedRunning ==
    /\ \A a \in DOMAIN attempts : attempts[a].status # "queued"
    /\ \A a \in DOMAIN cr_session : cr_session[a].status # "queued"
    /\ cr_pc = "returned" =>
        /\ Cardinality(RunAttempts(RunId)) = n_attempts
        /\ { attempts[a].attempt_number : a \in RunAttempts(RunId) } = 1..n_attempts

\* C7's case: create_run has returned for two attempts and both are running.
C7_Witness ==
    /\ cr_pc = "returned"
    /\ n_attempts = 2
    /\ \A a \in 1..2 : a \in DOMAIN attempts /\ attempts[a].status = "running"

\* C8: in every reachable state, every Attempt with status 'failed' has
\* reward 0.0, whichever path marked it failed.
C8_FailedHasZeroReward ==
    \A a \in DOMAIN attempts :
        attempts[a].status = "failed" => attempts[a].reward = Some(0)

\* C9: in every reachable state, every Attempt with status 'failed' has a
\* non-null error_message, whatever the cause of the failure.
C9_FailedHasErrorMessage ==
    \A a \in DOMAIN attempts :
        attempts[a].status = "failed" => attempts[a].error_message # NULL

\* C9's case: one Attempt failed on a handled failure of execute_harbor and
\* another was marked failed by the except clause.
C9_Witness ==
    \E a, b \in DOMAIN attempts :
        /\ attempts[a].status = "failed"
        /\ attempts[a].error_message = Some(TrialNotFoundMsg)
        /\ attempts[b].status = "failed"
        /\ attempts[b].error_message = Some(WorkerErrorMsg)

\* The runner subprocess was started: staging and the binary check passed.
SubprocessStarted(env) ==
    /\ env.is_s3_path => env.download_ok
    /\ env.harbor_bin_exists

\* C10: if the runner subprocess exceeds its timeout, execute_harbor returns
\* the timeout failure; an Attempt whose result write committed that failure
\* is 'failed' with reward 0.0, a non-null completed_at and the timeout
\* message, holds no Episode or TestResult row, and the write stores none.
C10_TimeoutFailsAttempt ==
    /\ [](\A env \in Environments :
            SubprocessStarted(env) /\ env.proc = "timeout"
                => execute_harbor(env) = FailureResult(TimeoutMsg))
    /\ [](\A a \in DOMAIN attempts :
            job_result[a] = FailureResult(TimeoutMsg) =>
                /\ attempts[a].status = "failed"
                /\ attempts[a].reward = Some(0)
                /\ attempts[a].completed_at # NULL
                /\ attempts[a].error_message = Some(TimeoutMsg)
                /\ episodes[a] = << >>
                /\ test_results[a] = << >>)
    /\ [][\A a \in AttemptIds :
            ( /\ job_result[a] # FailureResult(TimeoutMsg)
              /\ job_result'[a] = FailureResult(TimeoutMsg) )
            => episodes'[a] = episodes[a] /\ test_results'[a] = test_results[a]]_vars

\* C10's case: a job wrote the timeout failure and returned.
C10_Witness ==
    \E a \in DOMAIN attempts :
        /\ job_pc[a] = "done"
        /\ job_result[a] = FailureResult(TimeoutMsg)
        /\ attempts[a].status = "failed"
        /\ attempts[a].error_message = Some(TimeoutMsg)

\* No trial directory of the output directory has an agent subdirectory.
NoAgentSubdirectory(out) ==
    ~ \E i \in 1..Len(out.dates), j \in 1..MaxTrialDirs :
        /\ out.dates[i].is_dir
        /\ j <= Len(out.dates[i].trials)
        /\ out.dates[i].trials[j].is_dir
        /\ out.dates[i].trials[j].agent = "dir"

\* C11: the runner exited with code 0 and the output directory holds no
\* trial directory with an agent subdirectory: execute_harbor returns a
\* failure with an error text, reward 0.0 and no episodes or test results;
\* the Attempt whose result write committed is 'failed' with reward 0.0, that
\* error text and a completion time; no Episode or TestResult row is stored.
C11_NoTrialDirectoryFailsAttempt ==
    NoAgentSubdirectory(fs.output) =>
        /\ eh_pc \in {"return", "done"} =>
              /\ ~eh.result.success
              /\ eh.result.error # NULL
              /\ eh.result.reward = Some(0)
              /\ eh.result.episodes = << >>
              /\ eh.result.test_results = << >>
        /\ (eh_pc = "done" /\ job_pc[1] = "recompute") =>
              /\ attempts[1].status = "failed"
              /\ attempts[1].reward = Some(0)
              /\ attempts[1].error_message = eh.result.error
              /\ attempts[1].completed_at # NULL
        /\ \A a \in AttemptIds : episodes[a] = << >> /\ test_results[a] = << >>

\* C11's case: the output directory holds a trial directory, none with an
\* agent subdirectory, and the job has written the failure.
C11_Witness ==
    /\ NoAgentSubdirectory(fs.output)
    /\ \E i \in 1..Len(fs.output.dates) :
          /\ fs.output.dates[i].is_dir
          /\ \E j \in 1..Len(fs.output.dates[i].trials) :
                fs.output.dates[i].trials[j].is_dir
    /\ eh_pc = "done"
    /\ eh.result = FailureResult(TrialNotFoundMsg)
    /\ attempts[1].status = "failed"
    /\ attempts[1].error_message = Some(TrialNotFoundMsg)

AllTablesEmpty ==
    /\ tasks = { }
    /\ runs = << >>
    /\ attempts = << >>
    /\ \A a \in AttemptIds : episodes[a] = << >> /\ test_results[a] = << >>

\* C12: delete_all_tasks is all-or-nothing: the step that answers success
\* leaves the Task, Run, Attempt, Episode and TestResult tables empty, and
\* the step that answers an error leaves every table unchanged.
C12_DeleteAllTasksIsAllOrNothing ==
    [][/\ (delete_response = "none" /\ delete_response' = "success")
            => AllTablesEmpty'
       /\ (delete_response = "none" /\ delete_response' = "error")
            => UNCHANGED << tasks, runs, attempts, episodes, test_results >>]_vars

\* C12's case: the deletion succeeded after the job of attempt 1 had
\* stored a successful result with its Episodes and TestResults.
C12_Witness ==
    /\ delete_response = "success"
    /\ job_result[1].success
    /\ job_result[1].episodes # << >>
    /\ job_pc[1] = "done"
    /\ AllTablesEmpty

NoOrphans ==
    /\ \A a \in AttemptIds :
          (episodes[a] # << >> \/ test_results[a] # << >>) => a \in DOMAIN attempts
    /\ \A a \in DOMAIN attempts : attempts[a].run_id \in DOMAIN runs
    /\ \A r \in DOMAIN runs : runs[r].task_id \in tasks

\* C13: no orphan rows in any reachable state: every Episode and TestResult
\* references an existing Attempt, every Attempt an existing Run and every
\* Run an existing Task, also when delete_all_tasks interleaves with a
\* request or a job in flight.  (Stated for the states in which
\* clear_all_tasks has not run.)
C13_NoOrphanRows == clear_response = "none" => NoOrphans

\* C14: clear_all_tasks, run on a database holding a Task with a Run, leaves
\* no Task, Run, Attempt, Episode or TestResult row.
C14_ClearAllTasksDeletesDependents ==
    [][(/\ clear_response = "none"
        /\ clear_response' # "none"
        /\ tasks # { }
        /\ \E r \in DOMAIN runs : runs[r].task_id \in tasks)
       => AllTablesEmpty']_vars

\* C15: on the distributed path a faulting job is executed at most
\* 1 + max_retries times, and once it has faulted for the last time its
\* Attempt is 'failed' with the 'Worker error' message.
C15_GaveUpIsFailedWithWorkerError ==
    /\ \A a \in AttemptIds : job_retries[a] <= max_retries
    /\ \A a \in DOMAIN attempts :
          job_pc[a] = "gave_up" =>
              /\ attempts[a].status = "failed"
              /\ attempts[a].error_message = Some(WorkerErrorMsg)

\* C16: on the distributed path a job whose worker died before the
\* acknowledgement is delivered again and its Attempt still reaches a
\* terminal status.  Stated on the runs that have come to rest: once
\* create_run has returned and a redelivered job has ended, its Attempt is
\* 'completed' or 'failed'.
C16_RedeliveredAttemptReachesTerminal ==
    \A a \in DOMAIN attempts :
        ( /\ cr_pc = "returned"
          /\ redelivered[a] > 0
          /\ job_pc[a] \in {"done", "gave_up"} )
        => attempts[a].status \in Terminal

\* C17: a step of the job of one Attempt (result write, except clause,
\* status recomputation) leaves every sibling Attempt and the Episodes and
\* TestResults of the siblings unchanged, and changes nothing of the Run
\* but its status.
C17_FinalizationLeavesSiblingsUnchanged ==
    [][\A self \in AttemptIds :
          (job_pc[self] \in Executing /\ job_pc'[self] # job_pc[self]) =>
              /\ \A b \in DOMAIN attempts \ {self} :
                    b \in DOMAIN attempts' /\ attempts'[b] = attempts[b]
              /\ \A b \in AttemptIds \ {self} :
                    episodes'[b] = episodes[b] /\ test_results'[b] = test_results[b]
              /\ DOMAIN runs' = DOMAIN runs
              /\ \A r \in DOMAIN runs :
                    [runs'[r] EXCEPT !.status = runs[r].status] = runs[r]]_vars

\* C17's case: the except clause marked attempt 1 failed and its job ended
\* while attempt 2, committed, is still running.
C17_Witness ==
    /\ {1, 2} \subseteq DOMAIN attempts
    /\ attempts[1].status = "failed"
    /\ attempts[1].error_message = Some(WorkerErrorMsg)
    /\ job_pc[1] \in {"done", "gave_up"}
    /\ attempts[2] = NewAttempt(1)

\* The part of an episode directory's name after 'episode-'.
Suffix(name) == SubSeq(name, Len(EpisodePrefix) + 1, Len(name))

\* execute_harbor found a trial directory with agent/ and is past parsing.
ParsedTrial ==
    /\ eh_pc \in {"return", "done"}
    /\ eh.trial_dir # NULL
    /\ TrialAt(eh.trial_dir[1]).agent = "dir"

\* The numbers of a list of episodes.
EpisodeNumbers(eps) == { eps[k] : k \in 1..Len(eps) }

\* C18: for a trial directory whose N entries under agent/ are directories
\* episode-<integer> each holding a JSON-object response.txt, with a
\* ctrf.json of M tests: parsing yields exactly N episodes numbered by the
\* integer suffixes, exactly M test results, and the reward equal to the
\* number in reward.txt, or 0.0 when reward.txt is absent, unreadable or not
\* a number.
C18_ParsersRoundTrip ==
    ( /\ ParsedTrial
      /\ fs.contents.ctrf.kind = "object"
      /\ \A e \in fs.contents.entries :
            /\ e.is_dir
            /\ startswith(e.name, EpisodePrefix)
            /\ IsNumeric(Suffix(e.name))
            /\ e.response = "object" )
    => /\ eh.result.success
       /\ Len(eh.result.episodes) = Cardinality(fs.contents.entries)
       /\ EpisodeNumbers(eh.result.episodes)
            = { int(Suffix(e.name)) : e \in fs.contents.entries }
       /\ Len(eh.result.test_results) = Len(fs.contents.ctrf.tests)
       /\ (fs.contents.reward.kind = "text" /\ IsNumeric(fs.contents.reward.text))
            => eh.result.reward = Some(int(fs.contents.reward.text))
       /\ (fs.contents.reward.kind # "text" \/ ~IsNumeric(fs.contents.reward.text))
            => eh.result.reward = Some(0)

\* C18's case: two episode directories, a test and reward.txt '1'.
C18_Witness ==
    /\ ParsedTrial
    /\ eh_pc = "done"
    /\ Cardinality(fs.contents.entries) = 2
    /\ \A e \in fs.contents.entries : e.is_dir /\ e.response = "object"
    /\ Len(eh.result.episodes) = 2
    /\ Len(eh.result.test_results) >= 1
    /\ fs.contents.reward.kind = "text"
    /\ eh.result.reward = Some(1)

\* The directories under agent/ named episode-...
EpisodeDirectories == { e \in fs.contents.entries :
                          e.is_dir /\ startswith(e.name, EpisodePrefix) }

\* C19: a trial directory without ctrf.json, or with an unparseable one,
\* yields no test result and no fault; an episode directory whose
\* response.txt is missing or is not JSON is left out while every
\* well-formed episode is returned.  (For episode directories with integer
\* suffixes.)
C19_ParserResilience ==
    ( /\ ParsedTrial
      /\ \A e \in EpisodeDirectories : IsNumeric(Suffix(e.name)) )
    => /\ eh.result.success
       /\ fs.contents.ctrf.kind \in {"absent", "invalid"}
            => eh.result.test_results = << >>
       /\ Len(eh.result.episodes)
            = Cardinality({ e \in EpisodeDirectories : e.response = "object" })
       /\ EpisodeNumbers(eh.result.episodes)
            = { int(Suffix(e.name)) :
                  e \in { d \in EpisodeDirectories : d.response = "object" } }

\* C19's case: no ctrf.json, one episode directory with an unparseable
\* response.txt and one well-formed.
C19_Witness ==
    /\ ParsedTrial
    /\ eh_pc = "done"
    /\ fs.contents.ctrf.kind = "absent"
    /\ \E e \in EpisodeDirectories : e.response = "invalid"
    /\ \E e \in EpisodeDirectories : e.response = "object"
    /\ eh.result.success
    /\ Len(eh.result.episodes) = 1
    /\ attempts[1].status = "completed"

\* C20: an entry under agent/ whose name starts with 'episode-' and whose
\* suffix is not an integer contributes no episode and does not abort the
\* parse: the attempt still succeeds, with the remaining episodes.
C20_NonIntegerSuffixIsSkipped ==
    ( /\ ParsedTrial
      /\ \E e \in fs.contents.entries :
            startswith(e.name, EpisodePrefix) /\ ~IsNumeric(Suffix(e.name)) )
    => /\ eh.result.success
       /\ EpisodeNumbers(eh.result.episodes)
            = { int(Suffix(e.name)) :
                  e \in { d \in EpisodeDirectories :
                            IsNumeric(Suffix(d.name)) /\ d.response = "object" } }

-----------------------------------------------------------------------------
(* parse_test_results on the entries of ctrf.json *)

\* parse_test_results has run on the trial directory that was found.
TestsParsed ==
    \/ eh_pc = "parse_reward"
    \/ eh_pc \in {"return", "done"} /\ eh.result.success

\* C21: every parsed test result, as the parser returns it and as it is
\* stored, has a non-null error_message only if its status is 'failed'; an
\* entry of ctrf.json with any other status, or none, yields a null
\* error_message even when the entry has a 'message'.
C21_ErrorMessageOnlyWhenFailed ==
    /\ \A k \in 1..Len(eh.test_results) :
          eh.test_results[k].error_message # NULL
            => eh.test_results[k].status = "failed"
    /\ \A a \in AttemptIds : \A k \in 1..Len(test_results[a]) :
          test_results[a][k].error_message # NULL
            => test_results[a][k].status = "failed"
    /\ TestsParsed /\ fs.contents.ctrf.kind = "object"
         => /\ Len(eh.test_results) = Len(fs.contents.ctrf.tests)
            /\ \A k \in 1..Len(eh.test_results) :
                  fs.contents.ctrf.tests[k].status # Some("failed")
                    => eh.test_results[k].error_message = NULL

\* C21's case: a test that is not 'failed' and has a message was parsed and
\* stored.
C21_Witness ==
    /\ eh_pc = "done"
    /\ attempts[1].status = "completed"
    /\ Len(fs.contents.ctrf.tests) = 1
    /\ fs.contents.ctrf.tests[1].status = Some("passed")
    /\ fs.contents.ctrf.tests[1].message # NULL
    /\ Len(test_results[1]) = 1
    /\ test_results[1][1].error_message = NULL

\* The statuses a parsed test result may take.
TestStatuses == {"passed", "failed", "skipped", "unknown"}

\* C22: every parsed test result's status, as the parser returns it and as
\* it is stored, is 'passed', 'failed', 'skipped' or 'unknown'.
C22_StatusIsEnumerated ==
    /\ \A k \in 1..Len(eh.test_results) :
          eh.test_results[k].status \in TestStatuses
    /\ \A a \in AttemptIds : \A k \in 1..Len(test_results[a]) :
          test_results[a][k].status \in TestStatuses

-----------------------------------------------------------------------------
(* find_trial_directory *)

\* The second-level directories of the output directory that hold an agent
\* subdirectory, as <<i, j>>.
AgentSubdirectoryTrials(out) ==
    { p \in TrialDirsWithAgent(out) : out.dates[p[1]].trials[p[2]].agent = "dir" }

\* C23: find_trial_directory returns the first second-level directory, in
\* listing order, that holds an agent subdirectory, and None, without a
\* fault, when the output directory is missing, empty or holds none.
C23_FirstTrialWithAgentSubdirectory ==
    eh_pc # "find_trial_directory" =>
        LET hits == AgentSubdirectoryTrials(fs.output)
        IN IF ~fs.output.exists \/ hits = { }
           THEN eh.trial_dir = NULL
           ELSE /\ eh.trial_dir # NULL
                /\ eh.trial_dir[1] \in hits
                /\ \A q \in hits :
                      \/ eh.trial_dir[1][1] < q[1]
                      \/ eh.trial_dir[1][1] = q[1] /\ eh.trial_dir[1][2] <= q[2]

-----------------------------------------------------------------------------
(* Staging, archiving and logging in execute_harbor; upload_task *)

\* C24: when execute_harbor has returned, on whichever path (download
\* failure, missing binary, nonzero exit, timeout, no trial directory,
\* unexpected fault, success), no temporary directory it created exists.
C24_TemporaryDirectoryIsReleased ==
    /\ eh_pc = "done" => temp_dirs = { }
    /\ eh_pc = "finally" /\ stage.temp_task_dir # NULL
         => stage.temp_task_dir[1] \in temp_dirs

\* C24's case: a directory was created for staging and the runner timed
\* out; execute_harbor has returned.
C24_Witness ==
    /\ eh_pc = "done"
    /\ stage.temp_task_dir # NULL
    /\ eh.result = TimeoutResult
    /\ temp_dirs = { }

\* The archiving of the output directory failed: upload_directory_to_s3
\* returned False or raised.
ArchiveFailed ==
    \E i \in 1..Len(calls) :
        /\ calls[i].call = "upload_directory_to_s3"
        /\ calls[i].outcome \in {"false", "raise"}

\* C25: after a run and a parse that succeeded, a failure to archive the
\* output directory, reported by False or by an exception, leaves the
\* outcome as parsed: execute_harbor returns success, and the Attempt whose
\* result write committed is 'completed' with the parsed reward, Episodes
\* and TestResults.
C25_ArchiveFailureKeepsOutcome ==
    (eh_pc = "done" /\ eh.trial_dir # NULL /\ ArchiveFailed)
    => /\ eh.result.success
       /\ eh.result.reward = Some(eh.reward)
       /\ job_pc[1] = "recompute"
            => /\ attempts[1].status = "completed"
               /\ attempts[1].reward = Some(eh.reward)
               /\ episodes[1] = EpisodeRows(eh)
               /\ test_results[1] = TestResultRows(eh)

\* C26: when the stored task location is a local directory that exists,
\* absolute or relative, execute_harbor creates no temporary directory,
\* attempts no download and invokes the runner on that directory, also with
\* remote storage enabled.
C26_LocalTaskIsNotStaged ==
    (eh_pc # "stage" /\ stage.task_path # S3TaskPrefix /\ stage.exists)
    => /\ stage.temp_task_dir = NULL
       /\ \A i \in 1..Len(calls) :
             /\ calls[i].call # "download_directory_from_s3"
             /\ calls[i].call = "harbor run" => calls[i].arg = stage.task_path

\* C27: two executions that differ only in the credential, with credentials
\* of equal length, write the same log lines.
C27_LogDependsOnKeyLengthOnly ==
    \A k1, k2 \in Keys : Len(k1) = Len(k2) => log[k1] = log[k2]

\* The last upload answered.
LastUpload == uploads[Len(uploads)]

\* C28: an upload whose archive holds no task.toml at any level, whose file
\* name does not end with '.zip', or whose archive cannot be extracted is
\* answered 400 and stores no Task row.
C28_RejectedUploadCreatesNoTask ==
    [][(Len(uploads') = Len(uploads) + 1
        /\ \/ ~LastUpload'.request.zip_name
           \/ ~LastUpload'.request.extractable
           \/ LastUpload'.request.manifest = "none")
       => /\ LastUpload'.status_code = 400
          /\ UNCHANGED << tasks, task_file_path >>]_vars

\* C28's case: after an accepted upload, an archive that extracts and holds
\* no task.toml was answered 400, and the Task table holds the rows it held.
C28_Witness ==
    /\ Len(uploads) = 2
    /\ uploads[1].status_code = 200
    /\ uploads[2].request = [zip_name |-> TRUE, extractable |-> TRUE,
                             manifest |-> "none"]
    /\ uploads[2].status_code = 400
    /\ tasks = {1, 2}

-----------------------------------------------------------------------------
(* The job after a handled failure, and the fields of a completed Attempt *)

\* The job of attempt a has committed the failure execute_harbor returned
\* and is on its way to return, or has returned.
HandledFailure(a) ==
    /\ a \in DOMAIN attempts
    /\ job_pc[a] \in {"recompute", "write_run", "done"}
    /\ ~job_result[a].success
    /\ job_result[a].error # NULL

\* C29: once a job has committed a handled failure (download failure,
\* missing binary, nonzero exit, timeout, no trial directory), its Attempt is
\* 'failed' with that error, the job goes on to return and is never queued,
\* executed or sent to the except clause again, and the Attempt row keeps
\* its values.
C29_HandledFailureIsNotRetried ==
    [][\A a \in AttemptIds :
          HandledFailure(a)
            => /\ attempts[a].status = "failed"
               /\ attempts[a].error_message = job_result[a].error
               /\ HandledFailure(a)'
               /\ attempts'[a] = attempts[a]
               /\ job_result'[a] = job_result[a]]_vars

\* C29's case: a Celery task whose runner timed out has returned; its
\* Attempt is 'failed' with the timeout text.
C29_Witness ==
    /\ USE_CELERY
    /\ HandledFailure(1)
    /\ job_pc[1] = "done"
    /\ job_result[1] = TimeoutResult
    /\ attempts[1].status = "failed"
    /\ attempts[1].error_message = Some(TimeoutMsg)

\* C30: every Attempt with status 'completed' has a null error_message, a
\* reward, an output location and an episode_count equal to the number of
\* episodes the parser returned, which is the number of its Episode rows;
\* also when the except clause had marked it 'failed' before a retry
\* completed it.
C30_CompletedAttemptFields ==
    \A a \in DOMAIN attempts :
        attempts[a].status = "completed"
          => /\ attempts[a].error_message = NULL
             /\ attempts[a].reward # NULL
             /\ attempts[a].output_path # NULL
             /\ job_result[a].success
             /\ attempts[a].episode_count = Some(Len(job_result[a].episodes))
             /\ Len(episodes[a]) = Len(job_result[a].episodes)

\* C30's case: a Celery task completed its Attempt on its last retry, after
\* the except clause had run twice on it, and found two episodes.
C30_Witness ==
    /\ USE_CELERY
    /\ cr_pc = "returned"
    /\ job_pc[1] = "recompute"
    /\ job_retries[1] = max_retries
    /\ attempts[1].status = "completed"
    /\ attempts[1].completed_at # NULL
    /\ attempts[1].episode_count = Some(2)

-----------------------------------------------------------------------------
(* Rows and statuses over repeated executions of a job *)

\* The episode_count of a row, 0 while it is null.
EpisodeCount(row) ==
    IF row.episode_count = NULL THEN 0 ELSE row.episode_count[1]

\* C31: for every Attempt the number of Episode rows equals its
\* episode_count, and the Episode and TestResult rows are those of one
\* parse, after any sequence of executions of its job (first delivery,
\* fault retries, redelivery after worker loss).
C31_RowsOfOneParse ==
    \A a \in DOMAIN attempts :
        /\ Len(episodes[a]) = EpisodeCount(attempts[a])
        /\ \/ episodes[a] = << >> /\ test_results[a] = << >>
           \/ \E result \in Results :
                /\ result.success
                /\ episodes[a] = EpisodeRows(result)
                /\ test_results[a] = TestResultRows(result)

\* C32: once an Attempt is 'completed' or 'failed', no later step (a fault
\* retry, a redelivered job) changes its status.
C32_TerminalStatusIsStable ==
    [][\A a \in DOMAIN attempts :
          (attempts[a].status \in Terminal /\ a \in DOMAIN attempts')
            => attempts'[a].status = attempts[a].status]_vars

\* C33: every job finds its Attempt row when it looks it up: the step in
\* which a dispatched Celery task or thread queries its Attempt is taken
\* with the row committed, for every interleaving with create_run.
C33_JobFindsItsAttempt ==
    [][\A self \in AttemptIds :
          (job_pc[self] = "queued" /\ job_pc'[self] # "queued")
            => self \in DOMAIN attempts]_vars

\* What the result branches leave in the row of attempt number i + 1.
Persisted(i, result) ==
    IF result.success
    THEN AttemptCompleted(NewAttempt(i), result)
    ELSE AttemptFailed(NewAttempt(i), result)

\* C34: for the result execute_harbor returned, the Celery task and the
\* local thread leave the same persisted state: whichever executor ran it, a
\* job that has ended after execute_harbor returned a result leaves its
\* Attempt with the status, reward, episode_count, output location and
\* error_message of that result, and the Episode and TestResult rows of it.
C34_ExecutorsLeaveSameState ==
    \A a \in DOMAIN attempts :
        (cr_pc = "returned" /\ job_pc[a] = "done")
          => \E result \in Results :
                /\ attempts[a] = Persisted(a - 1, result)
                /\ episodes[a] =
                      IF result.success THEN EpisodeRows(result) ELSE << >>
                /\ test_results[a] =
                      IF result.success THEN TestResultRows(result) ELSE << >>

-----------------------------------------------------------------------------
(* create_run that fails; the statuses and the timestamp of a Run *)

\* C35: a create_run that failed has left nothing half-made: with no Run
\* row committed (404, 500) there is no Attempt row and no dispatched job;
\* with the Run row committed each of its n_attempts Attempts has its row,
\* and every dispatched job has its Attempt row.
C35_FailedCreateRunLeavesNothing ==
    cr_pc = "failed"
      => /\ RunId \notin DOMAIN runs
              => /\ attempts = << >>
                 /\ \A a \in AttemptIds : job_pc[a] = "none"
         /\ RunId \in DOMAIN runs
              => \A a \in 1..n_attempts : a \in DOMAIN attempts
         /\ \A a \in AttemptIds : job_pc[a] # "none" => a \in DOMAIN attempts

RunStatuses == {"queued", "running", "completed"}

C37_CompletedRunHasTimestamp ==
    \A r \in DOMAIN runs :
        runs[r].status = "completed" => runs[r].completed_at # NULL

====
